---- MODULE Spec2Model ----
(***************************************************************************)
(* The route registry of gorouter (package registry, RouteRegistry): a     *)
(* map from route URI to endpoint pool guarded by one sync.RWMutex, with   *)
(* a ticker-driven pruning sweep.  Package route (Uri, Endpoint, Pool) is  *)
(* not among the source files; its operators follow the specification.    *)
(*                                                                         *)
(* Threads are <<kind, n>>: workers <<"w", i>> call the public methods,    *)
(* <<"s", 0>> calls pruneStaleDroplets directly, <<"g", i>> are the        *)
(* goroutines spawned by StartPruningCycle, <<"main", 0>> owns the cycle.  *)
(* A method is a sequence of steps: taking the lock, the statements under  *)
(* the lock, releasing it.  Arguments are drawn when the lock is taken:    *)
(* nothing between the call and r.Lock() is visible to another thread,     *)
(* except Register's t := time.Now(), which is a step of its own.          *)
(***************************************************************************)
EXTENDS Integers, Sequences, FiniteSets, TLC

\* ------------------------------------------------------------- bounds
\* The clock runs 0..MaxTime.
MaxTime == 1
\* StartPruningCycle is called at most MaxStarts times.
MaxStarts == 2

\* time.Time{}: the value of timeOfLastUpdate before any Register.
ZeroTime == -1

\* ------------------------------------------------------ route.Uri
\* A Uri is a string, here the sequence of its ASCII codes:
\* 42 '*', 46 '.', 47 '/', 65..90 'A'..'Z', 97..122 'a'..'z'.
NoUri == << >>

\* strings.ToLower on ASCII: 'A'..'Z' move to 'a'..'z', the rest stays.
ToLower(u) ==
    [i \in 1..Len(u) |-> IF u[i] \in 65..90 THEN u[i] + 32 ELSE u[i]]

\* Index of the first c in s, 0 when there is none.
IndexOf(s, c) ==
    IF \E i \in 1..Len(s) : s[i] = c
    THEN CHOOSE i \in 1..Len(s) : s[i] = c /\ \A j \in 1..(i - 1) : s[j] # c
    ELSE 0

\* The host portion of a Uri (up to the first '/') and its path suffix.
HostOf(u) ==
    IF IndexOf(u, 47) = 0 THEN u ELSE SubSeq(u, 1, IndexOf(u, 47) - 1)

PathOf(u) ==
    IF IndexOf(u, 47) = 0 THEN << >> ELSE SubSeq(u, IndexOf(u, 47), Len(u))

\* The host without a leading "*." wildcard label.
TrimWildcard(h) ==
    IF Len(h) >= 2 /\ h[1] = 42 /\ h[2] = 46 THEN SubSeq(h, 3, Len(h)) ELSE h

\* NextWildcard: the left-most host label replaced by '*', the path kept;
\* err when the host has no further label, and then the Uri is unchanged.
NextWildcard(u) ==
    LET h == TrimWildcard(HostOf(u))
        i == IndexOf(h, 46)
    IN  IF i = 0
        THEN [uri |-> u, err |-> TRUE]
        ELSE [uri |-> <<42>> \o SubSeq(h, i, Len(h)) \o PathOf(u), err |-> FALSE]

\* ------------------------------------------------- route.Endpoint
NoEndpoint == [host |-> "", port |-> 0, tags |-> ""]

\* The dedup key of an endpoint: host:port.
CanonicalAddr(e) == <<e.host, e.port>>

\* --------------------------------------------------- route.Pool
\* A pool: the construction parameter and the set of its elements, each
\* an endpoint with the time it was last put.
NewPool(d) == [threshold |-> d, endpoints |-> {}]

PoolAddrs(p) == {CanonicalAddr(x.endpoint) : x \in p.endpoints}

\* Put: insert, or replace the element of the same canonical address;
\* the element's timestamp is the time of the call.
PoolPut(p, e, t) ==
    [p EXCEPT !.endpoints =
        {x \in @ : CanonicalAddr(x.endpoint) # CanonicalAddr(e)}
            \cup {[endpoint |-> e, updated |-> t]}]

\* Remove: delete by canonical address; nothing happens when absent.
PoolRemove(p, e) ==
    [p EXCEPT !.endpoints =
        {x \in @ : CanonicalAddr(x.endpoint) # CanonicalAddr(e)}]

PoolIsEmpty(p) == p.endpoints = {}

\* PruneEndpoints: drop every element last put before t - threshold.
PoolPruneEndpoints(p, threshold, t) ==
    [p EXCEPT !.endpoints = {x \in @ : ~(x.updated < t - threshold)}]

\* MarkUpdated(t) resets the pool's own "last touched" mark and leaves
\* every endpoint and its timestamp as it is.  No operation of the registry
\* reads that mark, and a pool here is its threshold and its endpoints.
PoolMarkUpdated(p, t) == [threshold |-> p.threshold, endpoints |-> p.endpoints]

\* ------------------------------------------------------- inputs
\* "A.b.c", "a.b.c", "*.b.c", "*.c", "a.d", "X.B.c"
UriUpper == <<65, 46, 98, 46, 99>>
UriExact == <<97, 46, 98, 46, 99>>
UriWild1 == <<42, 46, 98, 46, 99>>
UriWild2 == <<42, 46, 99>>
UriNone == <<97, 46, 100>>
UriOtherUpper == <<88, 46, 66, 46, 99>>

E1 == [host |-> "10.0.0.1", port |-> 80, tags |-> "a"]
E2 == [host |-> "10.0.0.1", port |-> 81, tags |-> "a"]
E1b == [host |-> "10.0.0.1", port |-> 80, tags |-> "b"]

\* What Register is called with, what Unregister is called with, what
\* Lookup is called with.
RegisterInputs ==
    { <<UriUpper, E1>>, <<UriExact, E1b>>, <<UriExact, E2>>,
      <<UriWild1, E2>>, <<UriWild2, E1>> }

UnregisterInputs ==
    { <<UriUpper, E1>>, <<UriExact, E2>>, <<UriWild1, E2>>, <<UriNone, E1>> }

LookupInputs == {UriExact, UriOtherUpper, UriWild2}

\* c.DropletStaleThreshold and c.PruneStaleDropletsInterval, as the
\* registry may be configured.
Thresholds == {0, 1}
Intervals == {-1, 0, 1}

\* ------------------------------------------------------- threads
Workers == {<<"w", 1>>, <<"w", 2>>}
Direct == <<"s", 0>>
Main == <<"main", 0>>
Goroutines == {<<"g", i>> : i \in 1..MaxStarts}
NoThread == <<"none", 0>>

\* ------------------------------------------------------- state
VARIABLES
    byUri,                      \* r.byUri: lower-cased Uri -> pool
    timeOfLastUpdate,           \* r.timeOfLastUpdate
    dropletStaleThreshold,      \* r.dropletStaleThreshold
    now,                        \* the clock time.Now() reads
    writer,                     \* the thread holding r.Lock(), or NoThread
    readers,                    \* the threads holding r.RLock()
    wk,                         \* each worker's position and locals
    sw,                         \* each sweeper's position and locals
    pre,                        \* byUri as the write lock was taken
    pruneStaleDropletsInterval, \* r.pruneStaleDropletsInterval
    ticker,                     \* r.ticker: an index of tickers, 0 for nil
    tickers,                    \* every time.Ticker created so far
    ctl                         \* the position of the thread owning the cycle

data == <<byUri, timeOfLastUpdate, dropletStaleThreshold, now, writer,
          readers, wk, sw, pre>>
cycle == <<pruneStaleDropletsInterval, ticker, tickers, ctl>>
vars == <<data, cycle>>

EmptyTable == [k \in {} |-> NewPool(0)]

\* A worker outside any method.
IdleWorker ==
    [pc |-> "idle", t |-> ZeroTime, arg |-> NoUri, uri |-> NoUri,
     endpoint |-> NoEndpoint, found |-> FALSE, err |-> FALSE,
     pool |-> NoUri, ret |-> 0, dump |-> << >>]

\* A sweeper about to call pruneStaleDroplets; a goroutine not spawned yet.
ReadySweeper == [pc |-> "ready", rem |-> {}, t0 |-> ZeroTime, tk |-> 0]
NoSweeper == [pc |-> "none", rem |-> {}, t0 |-> ZeroTime, tk |-> 0]

Sweepers == {Direct} \cup Goroutines

\* The owner of the cycle outside any method: starts counts its calls of
\* StartPruningCycle, spawned the goroutines it has started.
IdleMain == [pc |-> "idle", starts |-> 0, spawned |-> 0]

\* NewRouteRegistry: an empty map, the configuration copied, no ticker.
Constructed ==
    /\ byUri = EmptyTable
    /\ timeOfLastUpdate = ZeroTime
    /\ now = 0
    /\ writer = NoThread
    /\ readers = {}
    /\ wk = [w \in Workers |-> IdleWorker]
    /\ sw = [s \in Sweepers |-> IF s = Direct THEN ReadySweeper ELSE NoSweeper]
    /\ pre = EmptyTable
    /\ ticker = 0
    /\ tickers = << >>
    /\ ctl = IdleMain

\* ------------------------------------------------- sync.RWMutex
\* A Lock() that does not wait for the readers, and an RLock() that does
\* not wait for the writer.
CanLockDespiteReaders == writer = NoThread
CanLock == writer = NoThread /\ readers = {}
CanRLockDespiteWriter == TRUE
CanRLock == writer = NoThread

\* ------------------------------------------------- map operations
MapDelete(table, k) == [x \in DOMAIN table \ {k} |-> table[x]]
MapSet(table, k, p) == [x \in DOMAIN table \cup {k} |-> IF x = k THEN p ELSE table[x]]

\* delete(r.byUri, k) takes a pool out of the map but not out of the hands
\* of a caller Lookup gave it to: found records that the pool a caller
\* holds is still the one stored under its key.
Detach(workers, table) ==
    [v \in DOMAIN workers |->
        IF workers[v].pc = "LookupHeld" /\ workers[v].pool \notin DOMAIN table
        THEN [workers[v] EXCEPT !.found = FALSE]
        ELSE workers[v]]

\* ------------------------------------------------------- Register
\* t := time.Now()
RegisterStart(w) ==
    /\ wk[w].pc = "idle"
    /\ wk' = [wk EXCEPT ![w] = [@ EXCEPT !.pc = "RegLock", !.t = now]]
    /\ UNCHANGED <<byUri, timeOfLastUpdate, dropletStaleThreshold, now,
                   writer, readers, sw, pre, cycle>>

\* r.Lock()
RegisterLock(w, uri, e) ==
    /\ wk[w].pc = "RegLock"
    /\ CanLock
    /\ writer' = w
    /\ pre' = byUri
    /\ wk' = [wk EXCEPT ![w] = [@ EXCEPT !.pc = "RegBody", !.arg = uri,
                                         !.uri = uri, !.endpoint = e]]
    /\ UNCHANGED <<byUri, timeOfLastUpdate, dropletStaleThreshold, now,
                   readers, sw, cycle>>

\* Register with the new pool never stored in the map.
RegisterTableNoStore(table, uri, e, threshold, t) ==
    LET key == ToLower(uri)
    IN  IF key \in DOMAIN table
        THEN MapSet(table, key, PoolPut(table[key], e, t))
        ELSE table

\* Register putting the endpoint only into a pool it has just created.
RegisterTablePutOnce(table, uri, e, threshold, t) ==
    LET key == ToLower(uri)
    IN  IF key \in DOMAIN table
        THEN table
        ELSE MapSet(table, key, PoolPut(NewPool(threshold \div 4), e, t))

\* Register without uri.ToLower().
RegisterTableRaw(table, uri, e, threshold, t) ==
    LET pool == IF uri \in DOMAIN table THEN table[uri]
                ELSE NewPool(threshold \div 4)
    IN  MapSet(table, uri, PoolPut(pool, e, t))

\* The table after the statements of Register under the lock.
RegisterTable(table, uri, e, threshold, t) ==
    LET key == ToLower(uri)
        pool == IF key \in DOMAIN table THEN table[key]
                ELSE NewPool(threshold \div 4)
    IN  MapSet(table, key, PoolPut(pool, e, t))

\* uri = uri.ToLower() ... r.timeOfLastUpdate = t
RegisterBody(w) ==
    /\ wk[w].pc = "RegBody"
    /\ byUri' = RegisterTable(byUri, wk[w].uri, wk[w].endpoint,
                              dropletStaleThreshold, now)
    /\ timeOfLastUpdate' = wk[w].t
    /\ wk' = [wk EXCEPT ![w] = [@ EXCEPT !.pc = "RegUnlock",
                                         !.uri = ToLower(@),
                                         !.found = ToLower(wk[w].uri) \in DOMAIN byUri,
                                         !.pool = ToLower(wk[w].uri)]]
    /\ UNCHANGED <<dropletStaleThreshold, now, writer, readers, sw, pre, cycle>>

\* r.Unlock()
RegisterUnlock(w) ==
    /\ wk[w].pc = "RegUnlock"
    /\ writer' = NoThread
    /\ pre' = EmptyTable
    /\ wk' = [wk EXCEPT ![w] = IdleWorker]
    /\ UNCHANGED <<byUri, timeOfLastUpdate, dropletStaleThreshold, now,
                   readers, sw, cycle>>

\* ----------------------------------------------------- Unregister
\* r.Lock()
UnregisterLock(w, uri, e) ==
    /\ wk[w].pc = "idle"
    /\ CanLock
    /\ writer' = w
    /\ pre' = byUri
    /\ wk' = [wk EXCEPT ![w] = [@ EXCEPT !.pc = "UnregBody", !.arg = uri,
                                         !.uri = uri, !.endpoint = e]]
    /\ UNCHANGED <<byUri, timeOfLastUpdate, dropletStaleThreshold, now,
                   readers, sw, cycle>>

\* Unregister whose Remove finds nothing to remove.
UnregisterRemoveNone(table, uri, e) == table

\* pool.Remove(endpoint) on the pool found under the lower-cased uri.
UnregisterRemove(table, uri, e) ==
    LET key == ToLower(uri)
    IN  IF key \in DOMAIN table
        THEN MapSet(table, key, PoolRemove(table[key], e))
        ELSE table

\* Unregister without the delete, and with the delete not guarded by
\* pool.IsEmpty().
UnregisterDeleteNever(table, key) == table
UnregisterDeleteAlways(table, key) == MapDelete(table, key)

\* if pool.IsEmpty() { delete(r.byUri, uri) }
UnregisterDelete(table, key) ==
    IF PoolIsEmpty(table[key]) THEN MapDelete(table, key) ELSE table

\* The table after the statements of Unregister under the lock.
UnregisterTable(table, uri, e) ==
    IF ToLower(uri) \in DOMAIN table
    THEN UnregisterDelete(UnregisterRemove(table, uri, e), ToLower(uri))
    ELSE table

\* uri = uri.ToLower(); pool, found := r.byUri[uri]; pool.Remove(endpoint)
UnregisterBody(w) ==
    /\ wk[w].pc = "UnregBody"
    /\ byUri' = UnregisterRemove(byUri, wk[w].uri, wk[w].endpoint)
    /\ LET key == ToLower(wk[w].uri)
           found == key \in DOMAIN byUri
       IN  wk' = [wk EXCEPT ![w] = [@ EXCEPT
                    !.pc = IF found THEN "UnregCheck" ELSE "UnregUnlock",
                    !.uri = key, !.found = found,
                    !.pool = IF found THEN key ELSE NoUri]]
    /\ UNCHANGED <<timeOfLastUpdate, dropletStaleThreshold, now, writer,
                   readers, sw, pre, cycle>>

UnregisterCheck(w) ==
    /\ wk[w].pc = "UnregCheck"
    /\ byUri' = UnregisterDelete(byUri, wk[w].uri)
    /\ wk' = Detach([wk EXCEPT ![w] = [@ EXCEPT !.pc = "UnregUnlock"]], byUri')
    /\ UNCHANGED <<timeOfLastUpdate, dropletStaleThreshold, now, writer,
                   readers, sw, pre, cycle>>

\* r.Unlock()
UnregisterUnlock(w) ==
    /\ wk[w].pc = "UnregUnlock"
    /\ writer' = NoThread
    /\ pre' = EmptyTable
    /\ wk' = [wk EXCEPT ![w] = IdleWorker]
    /\ UNCHANGED <<byUri, timeOfLastUpdate, dropletStaleThreshold, now,
                   readers, sw, cycle>>

\* --------------------------------------------------------- Lookup
\* r.RLock(); uri = uri.ToLower(); pool, found := r.byUri[uri]
LookupLock(w, uri) ==
    /\ wk[w].pc = "idle"
    /\ CanRLock
    /\ readers' = readers \cup {w}
    /\ LET key == ToLower(uri)
           found == key \in DOMAIN byUri
       IN  wk' = [wk EXCEPT ![w] = [@ EXCEPT
                    !.pc = "LookupLoop", !.arg = uri, !.uri = key,
                    !.found = found, !.err = FALSE,
                    !.pool = IF found THEN key ELSE NoUri]]
    /\ UNCHANGED <<byUri, timeOfLastUpdate, dropletStaleThreshold, now,
                   writer, sw, pre, cycle>>

\* The turn that gives up after one generalization.
LookupTurnOnce(table, uri) ==
    LET nw == NextWildcard(uri)
        found == nw.uri \in DOMAIN table
    IN  [uri |-> nw.uri, err |-> TRUE, found |-> found,
         pool |-> IF found THEN nw.uri ELSE NoUri]

\* The turn that drops the error of NextWildcard.
LookupTurnNoErr(table, uri) ==
    LET nw == NextWildcard(uri)
        found == nw.uri \in DOMAIN table
    IN  [uri |-> nw.uri, err |-> FALSE, found |-> found,
         pool |-> IF found THEN nw.uri ELSE NoUri]

\* uri, err = uri.NextWildcard(); pool, found = r.byUri[uri]
\* A *route.Pool is named by the key it is stored under, nil by NoUri.
LookupTurn(table, uri) ==
    LET nw == NextWildcard(uri)
        found == nw.uri \in DOMAIN table
    IN  [uri |-> nw.uri, err |-> nw.err, found |-> found,
         pool |-> IF found THEN nw.uri ELSE NoUri]

\* One turn of: for !found && err == nil { ... }; ret counts the turns.
LookupLoop(w) ==
    /\ wk[w].pc = "LookupLoop"
    /\ ~wk[w].found /\ ~wk[w].err
    /\ LET turn == LookupTurn(byUri, wk[w].uri)
       IN  wk' = [wk EXCEPT ![w] = [@ EXCEPT
                    !.uri = turn.uri, !.err = turn.err, !.found = turn.found,
                    !.pool = turn.pool, !.ret = @ + 1]]
    /\ UNCHANGED <<byUri, timeOfLastUpdate, dropletStaleThreshold, now,
                   writer, readers, sw, pre, cycle>>

\* The loop has ended: Lookup is about to r.RUnlock() and return pool.
LookupDone(w) ==
    wk[w].pc = "LookupLoop" /\ (wk[w].found \/ wk[w].err)

\* What Lookup(uri) returns on a table no writer changes meanwhile.
RECURSIVE LookupFrom(_, _, _, _, _)
LookupFrom(table, uri, pool, found, err) ==
    IF found \/ err THEN pool
    ELSE LET turn == LookupTurn(table, uri)
         IN  LookupFrom(table, turn.uri, turn.pool, turn.found, turn.err)

LookupResult(table, uri) ==
    LET key == ToLower(uri)
        found == key \in DOMAIN table
    IN  LookupFrom(table, key, IF found THEN key ELSE NoUri, found, FALSE)

\* r.RUnlock(); return pool
LookupUnlock(w) ==
    /\ LookupDone(w)
    /\ readers' = readers \ {w}
    /\ wk' = [wk EXCEPT ![w] = IdleWorker]
    /\ UNCHANGED <<byUri, timeOfLastUpdate, dropletStaleThreshold, now,
                   writer, sw, pre, cycle>>

\* r.RUnlock(); return pool, to a caller that keeps the pool it was given:
\* what it holds is the *route.Pool stored in the map, not a copy.
LookupReturn(w) ==
    /\ LookupDone(w)
    /\ wk[w].pool # NoUri
    /\ readers' = readers \ {w}
    /\ wk' = [wk EXCEPT ![w] = [IdleWorker EXCEPT !.pc = "LookupHeld",
                                                  !.pool = wk[w].pool,
                                                  !.found = TRUE]]
    /\ UNCHANGED <<byUri, timeOfLastUpdate, dropletStaleThreshold, now,
                   writer, sw, pre, cycle>>

\* The caller is done with the pool.
LookupRelease(w) ==
    /\ wk[w].pc = "LookupHeld"
    /\ wk' = [wk EXCEPT ![w] = IdleWorker]
    /\ UNCHANGED <<byUri, timeOfLastUpdate, dropletStaleThreshold, now,
                   writer, readers, sw, pre, cycle>>

\* ------------------------------------------------ NumUris, NumEndpoints
\* len(registry.byUri)
NumUrisOf(table) == Cardinality(DOMAIN table)

\* registry.RLock(); uriCount := len(registry.byUri)
NumUrisLock(w) ==
    /\ wk[w].pc = "idle"
    /\ CanRLock
    /\ readers' = readers \cup {w}
    /\ wk' = [wk EXCEPT ![w] = [@ EXCEPT !.pc = "NumUrisUnlock",
                                         !.ret = NumUrisOf(byUri)]]
    /\ UNCHANGED <<byUri, timeOfLastUpdate, dropletStaleThreshold, now,
                   writer, sw, pre, cycle>>

\* pool.Each(f) over the pools in keys, f adding each element's
\* CanonicalAddr to the map uris.
RECURSIVE EachPool(_, _, _)
EachPool(table, keys, uris) ==
    IF keys = {} THEN uris
    ELSE LET k == CHOOSE x \in keys : TRUE
         IN  EachPool(table, keys \ {k},
                      uris \cup {CanonicalAddr(x.endpoint) : x \in table[k].endpoints})

\* The sum of the pools' sizes.
RECURSIVE SumPools(_, _)
SumPools(table, keys) ==
    IF keys = {} THEN 0
    ELSE LET k == CHOOSE x \in keys : TRUE
         IN  Cardinality(table[k].endpoints) + SumPools(table, keys \ {k})

NumEndpointsSum(table) == SumPools(table, DOMAIN table)

\* len(uris) after the loop over r.byUri.
NumEndpointsOf(table) == Cardinality(EachPool(table, DOMAIN table, {}))

\* r.RLock(); ...; for _, pool := range r.byUri { pool.Each(f) }
NumEndpointsLock(w) ==
    /\ wk[w].pc = "idle"
    /\ CanRLock
    /\ readers' = readers \cup {w}
    /\ wk' = [wk EXCEPT ![w] = [@ EXCEPT !.pc = "NumEndpointsUnlock",
                                         !.ret = NumEndpointsOf(byUri)]]
    /\ UNCHANGED <<byUri, timeOfLastUpdate, dropletStaleThreshold, now,
                   writer, sw, pre, cycle>>

\* r.RLock(); t := r.timeOfLastUpdate
TimeOfLastUpdateLock(w) ==
    /\ wk[w].pc = "idle"
    /\ CanRLock
    /\ readers' = readers \cup {w}
    /\ wk' = [wk EXCEPT ![w] = [@ EXCEPT !.pc = "TimeOfLastUpdateUnlock",
                                         !.ret = timeOfLastUpdate]]
    /\ UNCHANGED <<byUri, timeOfLastUpdate, dropletStaleThreshold, now,
                   writer, sw, pre, cycle>>

\* json.Marshal writes a map with its keys in byte order.
RECURSIVE UriBefore(_, _)
UriBefore(a, b) ==
    IF a = << >> THEN b # << >>
    ELSE IF b = << >> THEN FALSE
    ELSE IF a[1] # b[1] THEN a[1] < b[1]
    ELSE UriBefore(Tail(a), Tail(b))

\* The dump of the routes in keys: one entry a route, in key order, with
\* the addresses of its pool.
RECURSIVE MarshalKeys(_, _)
MarshalKeys(table, keys) ==
    IF keys = {} THEN << >>
    ELSE LET k == CHOOSE x \in keys : \A y \in keys \ {x} : UriBefore(x, y)
         IN  <<[uri |-> k, addrs |-> PoolAddrs(table[k])]>>
                \o MarshalKeys(table, keys \ {k})

\* json.Marshal(r.byUri)
MarshalJSONOf(table) == MarshalKeys(table, DOMAIN table)

\* r.RLock(); defer r.RUnlock(); json.Marshal(r.byUri)
MarshalJSONLock(w) ==
    /\ wk[w].pc = "idle"
    /\ CanRLock
    /\ readers' = readers \cup {w}
    /\ wk' = [wk EXCEPT ![w] = [@ EXCEPT !.pc = "MarshalJSONUnlock",
                                         !.dump = MarshalJSONOf(byUri)]]
    /\ UNCHANGED <<byUri, timeOfLastUpdate, dropletStaleThreshold, now,
                   writer, sw, pre, cycle>>

\* r.RUnlock(); return
ReaderUnlock(w) ==
    /\ wk[w].pc \in {"NumUrisUnlock", "NumEndpointsUnlock",
                     "TimeOfLastUpdateUnlock", "MarshalJSONUnlock"}
    /\ readers' = readers \ {w}
    /\ wk' = [wk EXCEPT ![w] = IdleWorker]
    /\ UNCHANGED <<byUri, timeOfLastUpdate, dropletStaleThreshold, now,
                   writer, sw, pre, cycle>>

\* ---------------------------------------------- pruneStaleDroplets
\* r.Lock(), and the range over r.byUri begins.
PruneLock(s) ==
    /\ sw[s].pc = "ready"
    /\ CanLock
    /\ writer' = s
    /\ pre' = byUri
    /\ sw' = [sw EXCEPT ![s] = [@ EXCEPT !.pc = "PruneLoop", !.rem = DOMAIN byUri,
                                         !.t0 = now]]
    /\ UNCHANGED <<byUri, timeOfLastUpdate, dropletStaleThreshold, now,
                   readers, wk, cycle>>

\* The sweep without the delete of an emptied route.
PruneRouteKeepEmpty(table, k, threshold, t) ==
    MapSet(table, k, PoolPruneEndpoints(table[k], threshold, t))

\* The sweep deleting every route it visits.
PruneRouteDeleteAlways(table, k, threshold, t) == MapDelete(table, k)

\* pool.PruneEndpoints(threshold); if pool.IsEmpty() { delete(r.byUri, k) }
PruneRoute(table, k, threshold, t) ==
    LET p == PoolPruneEndpoints(table[k], threshold, t)
    IN  IF PoolIsEmpty(p) THEN MapDelete(table, k) ELSE MapSet(table, k, p)

\* One turn of the range loop, on any route not yet visited.
PruneStep(s) ==
    /\ sw[s].pc = "PruneLoop"
    /\ \E k \in sw[s].rem :
        /\ byUri' = PruneRoute(byUri, k, dropletStaleThreshold, now)
        /\ sw' = [sw EXCEPT ![s] = [@ EXCEPT !.rem = @ \ {k}]]
    /\ wk' = Detach(wk, byUri')
    /\ UNCHANGED <<timeOfLastUpdate, dropletStaleThreshold, now, writer,
                   readers, pre, cycle>>

\* The range loop has ended: the sweep is about to r.Unlock().
PruneDone(s) == sw[s].pc = "PruneLoop" /\ sw[s].rem = {}

\* The goroutine without its for loop: it returns after one sweep.
PruneUnlockOnce(s) ==
    /\ PruneDone(s)
    /\ writer' = NoThread
    /\ pre' = EmptyTable
    /\ sw' = [sw EXCEPT ![s] = IF s = Direct THEN ReadySweeper
                                ELSE [ReadySweeper EXCEPT !.pc = "returned"]]
    /\ UNCHANGED <<byUri, timeOfLastUpdate, dropletStaleThreshold, now,
                   readers, wk, cycle>>

\* r.Unlock()
PruneUnlock(s) ==
    /\ PruneDone(s)
    /\ writer' = NoThread
    /\ pre' = EmptyTable
    /\ sw' = [sw EXCEPT ![s] = IF s = Direct THEN ReadySweeper
                                ELSE [ReadySweeper EXCEPT !.pc = "select"]]
    /\ UNCHANGED <<byUri, timeOfLastUpdate, dropletStaleThreshold, now,
                   readers, wk, cycle>>

\* ----------------------------------------------- pauseStaleTracker
\* r.Lock()
PauseLock(w) ==
    /\ wk[w].pc = "idle"
    /\ CanLock
    /\ writer' = w
    /\ pre' = byUri
    /\ wk' = [wk EXCEPT ![w] = [@ EXCEPT !.pc = "PauseBody"]]
    /\ UNCHANGED <<byUri, timeOfLastUpdate, dropletStaleThreshold, now,
                   readers, sw, cycle>>

\* for _, pool := range r.byUri { pool.MarkUpdated(t) }
PauseTable(table, t) == [k \in DOMAIN table |-> PoolMarkUpdated(table[k], t)]

\* t := time.Now() and the range loop.
PauseBody(w) ==
    /\ wk[w].pc = "PauseBody"
    /\ byUri' = PauseTable(byUri, now)
    /\ wk' = [wk EXCEPT ![w] = [@ EXCEPT !.pc = "PauseUnlock"]]
    /\ UNCHANGED <<timeOfLastUpdate, dropletStaleThreshold, now, writer,
                   readers, sw, pre, cycle>>

\* r.Unlock()
PauseUnlock(w) ==
    /\ wk[w].pc = "PauseUnlock"
    /\ writer' = NoThread
    /\ pre' = EmptyTable
    /\ wk' = [wk EXCEPT ![w] = IdleWorker]
    /\ UNCHANGED <<byUri, timeOfLastUpdate, dropletStaleThreshold, now,
                   readers, sw, cycle>>

\* --------------------------------------------------------- clock
Tick ==
    /\ now < MaxTime
    /\ now' = now + 1
    /\ UNCHANGED <<byUri, timeOfLastUpdate, dropletStaleThreshold, writer,
                   readers, wk, sw, pre, cycle>>

\* ------------------------------------------------ StartPruningCycle
\* if r.pruneStaleDropletsInterval > 0 { ... } with the interval not
\* positive: the call returns at once.
StartDisabled ==
    /\ ctl.pc = "idle"
    /\ ctl.starts < MaxStarts
    /\ ~(pruneStaleDropletsInterval > 0)
    /\ ctl' = [ctl EXCEPT !.starts = @ + 1]
    /\ UNCHANGED <<data, pruneStaleDropletsInterval, ticker, tickers>>

\* StartPruningCycle without the test of the interval.
StartLockAnyInterval ==
    /\ ctl.pc = "idle"
    /\ ctl.starts < MaxStarts
    /\ CanLock
    /\ writer' = Main
    /\ ctl' = [ctl EXCEPT !.pc = "StartTicker", !.starts = @ + 1]
    /\ UNCHANGED <<byUri, timeOfLastUpdate, dropletStaleThreshold, now,
                   readers, wk, sw, pre, pruneStaleDropletsInterval, ticker,
                   tickers>>

\* if r.pruneStaleDropletsInterval > 0 { r.Lock()
StartLock ==
    /\ ctl.pc = "idle"
    /\ ctl.starts < MaxStarts
    /\ pruneStaleDropletsInterval > 0
    /\ CanLock
    /\ writer' = Main
    /\ ctl' = [ctl EXCEPT !.pc = "StartTicker", !.starts = @ + 1]
    /\ UNCHANGED <<byUri, timeOfLastUpdate, dropletStaleThreshold, now,
                   readers, wk, sw, pre, pruneStaleDropletsInterval, ticker,
                   tickers>>

\* time.NewTicker: a running ticker with nothing in its channel.
NewTicker == [stopped |-> FALSE, c |-> 0]

\* r.ticker = time.NewTicker(r.pruneStaleDropletsInterval)
StartTicker ==
    /\ ctl.pc = "StartTicker"
    /\ tickers' = Append(tickers, NewTicker)
    /\ ticker' = Len(tickers) + 1
    /\ ctl' = [ctl EXCEPT !.pc = "StartUnlock"]
    /\ UNCHANGED <<data, pruneStaleDropletsInterval>>

\* r.Unlock()
StartUnlock ==
    /\ ctl.pc = "StartUnlock"
    /\ writer' = NoThread
    /\ ctl' = [ctl EXCEPT !.pc = "StartGo"]
    /\ UNCHANGED <<byUri, timeOfLastUpdate, dropletStaleThreshold, now,
                   readers, wk, sw, pre, pruneStaleDropletsInterval, ticker,
                   tickers>>

\* go func() { for { select { ... } } }()
StartGo ==
    /\ ctl.pc = "StartGo"
    /\ sw' = [sw EXCEPT ![<<"g", ctl.spawned + 1>>] =
                [ReadySweeper EXCEPT !.pc = "select"]]
    /\ ctl' = [ctl EXCEPT !.pc = "idle", !.spawned = @ + 1]
    /\ UNCHANGED <<byUri, timeOfLastUpdate, dropletStaleThreshold, now,
                   writer, readers, wk, pre, pruneStaleDropletsInterval,
                   ticker, tickers>>

\* select { case <-r.ticker.C: the goroutine reads r.ticker without the
\* lock, which races with the write of a later StartPruningCycle: it sees
\* the ticker of the call that started it (goroutine n follows ticker n)
\* or any ticker stored since, and waits on that ticker's channel.
GoSelect(g) ==
    /\ sw[g].pc = "select"
    /\ \E i \in g[2]..ticker :
        sw' = [sw EXCEPT ![g] = [@ EXCEPT !.pc = "recv", !.tk = i]]
    /\ UNCHANGED <<byUri, timeOfLastUpdate, dropletStaleThreshold, now,
                   writer, readers, wk, pre, cycle>>

\* A tick arrives on the channel the goroutine waits on; it goes on to
\* r.pruneStaleDroplets().
GoRecv(g) ==
    /\ sw[g].pc = "recv"
    /\ tickers[sw[g].tk].c = 1
    /\ tickers' = [tickers EXCEPT ![sw[g].tk].c = 0]
    /\ sw' = [sw EXCEPT ![g] = [@ EXCEPT !.pc = "ready"]]
    /\ UNCHANGED <<byUri, timeOfLastUpdate, dropletStaleThreshold, now,
                   writer, readers, wk, pre, pruneStaleDropletsInterval,
                   ticker, ctl>>

\* A running ticker sends a tick; its channel holds one tick, and a tick
\* sent while the channel is full is dropped.  The period is not measured
\* against the clock: a tick may come at any time.
TickerFire(i) ==
    /\ ~tickers[i].stopped
    /\ tickers[i].c = 0
    /\ tickers' = [tickers EXCEPT ![i].c = 1]
    /\ UNCHANGED <<data, pruneStaleDropletsInterval, ticker, ctl>>

\* ------------------------------------------------- StopPruningCycle
\* r.Lock()
StopLock ==
    /\ ctl.pc = "idle"
    /\ CanLock
    /\ writer' = Main
    /\ ctl' = [ctl EXCEPT !.pc = "StopBody"]
    /\ UNCHANGED <<byUri, timeOfLastUpdate, dropletStaleThreshold, now,
                   readers, wk, sw, pre, pruneStaleDropletsInterval, ticker,
                   tickers>>

\* Ticker.Stop: no tick is sent from now on; the channel is left as it is.
TickerStop(tks, i) == [tks EXCEPT ![i].stopped = TRUE]

\* StopPruningCycle without the nil check: r.ticker.Stop() on a nil ticker
\* panics and the call never returns.
StopBodyUnguarded ==
    /\ ctl.pc = "StopBody"
    /\ ticker # 0
    /\ tickers' = TickerStop(tickers, ticker)
    /\ ctl' = [ctl EXCEPT !.pc = "StopUnlock"]
    /\ UNCHANGED <<data, pruneStaleDropletsInterval, ticker>>

\* if r.ticker != nil { r.ticker.Stop() }
StopBody ==
    /\ ctl.pc = "StopBody"
    /\ tickers' = IF ticker # 0 THEN TickerStop(tickers, ticker) ELSE tickers
    /\ ctl' = [ctl EXCEPT !.pc = "StopUnlock"]
    /\ UNCHANGED <<data, pruneStaleDropletsInterval, ticker>>

\* r.Unlock()
StopUnlock ==
    /\ ctl.pc = "StopUnlock"
    /\ writer' = NoThread
    /\ ctl' = [ctl EXCEPT !.pc = "idle"]
    /\ UNCHANGED <<byUri, timeOfLastUpdate, dropletStaleThreshold, now,
                   readers, wk, sw, pre, pruneStaleDropletsInterval, ticker,
                   tickers>>

\* ------------------------------------------------- specification
Next ==
    \/ \E w \in Workers : RegisterStart(w)
    \/ \E w \in Workers : \E in \in RegisterInputs : RegisterLock(w, in[1], in[2])
    \/ \E w \in Workers : RegisterBody(w)
    \/ \E w \in Workers : RegisterUnlock(w)
    \/ \E w \in Workers : \E in \in UnregisterInputs : UnregisterLock(w, in[1], in[2])
    \/ \E w \in Workers : UnregisterBody(w)
    \/ \E w \in Workers : UnregisterCheck(w)
    \/ \E w \in Workers : UnregisterUnlock(w)
    \/ \E w \in Workers : \E uri \in LookupInputs : LookupLock(w, uri)
    \/ \E w \in Workers : LookupLoop(w)
    \/ \E w \in Workers : LookupUnlock(w)
    \/ \E w \in Workers : NumUrisLock(w)
    \/ \E w \in Workers : NumEndpointsLock(w)
    \/ \E w \in Workers : TimeOfLastUpdateLock(w)
    \/ \E w \in Workers : MarshalJSONLock(w)
    \/ \E w \in Workers : ReaderUnlock(w)
    \/ \E w \in Workers : PauseLock(w)
    \/ \E w \in Workers : PauseBody(w)
    \/ \E w \in Workers : PauseUnlock(w)
    \/ PruneLock(Direct)
    \/ PruneStep(Direct)
    \/ PruneUnlock(Direct)
    \/ Tick

\* The registry built from SpecConfig: c.PruneStaleDropletsInterval = 0, so
\* no cycle runs and pruneStaleDroplets is called directly.
Init ==
    /\ Constructed
    /\ pruneStaleDropletsInterval = 0
    /\ dropletStaleThreshold \in Thresholds

Spec == Init /\ [][Next]_vars

\* The registry with its pruning cycle: one worker registers and
\* unregisters one endpoint while the owner starts and stops the cycle;
\* c.DropletStaleThreshold = 0 as in SpecConfig.
CycleWorkers == {<<"w", 1>>}
CycleRegisterInputs == { <<UriUpper, E1>> }
CycleUnregisterInputs == { <<UriExact, E1>> }

InitCycle ==
    /\ Constructed
    /\ pruneStaleDropletsInterval \in Intervals
    /\ dropletStaleThreshold = 0

NextCycle ==
    \/ StartDisabled
    \/ StartLock
    \/ StartTicker
    \/ StartUnlock
    \/ StartGo
    \/ StopLock
    \/ StopBody
    \/ StopUnlock
    \/ \E i \in 1..Len(tickers) : TickerFire(i)
    \/ \E g \in Goroutines : GoSelect(g)
    \/ \E g \in Goroutines : GoRecv(g)
    \/ \E g \in Goroutines : PruneLock(g)
    \/ \E g \in Goroutines : PruneStep(g)
    \/ \E g \in Goroutines : PruneUnlock(g)
    \/ \E w \in CycleWorkers : RegisterStart(w)
    \/ \E w \in CycleWorkers : \E in \in CycleRegisterInputs : RegisterLock(w, in[1], in[2])
    \/ \E w \in CycleWorkers : RegisterBody(w)
    \/ \E w \in CycleWorkers : RegisterUnlock(w)
    \/ \E w \in CycleWorkers : \E in \in CycleUnregisterInputs : UnregisterLock(w, in[1], in[2])
    \/ \E w \in CycleWorkers : UnregisterBody(w)
    \/ \E w \in CycleWorkers : UnregisterCheck(w)
    \/ \E w \in CycleWorkers : UnregisterUnlock(w)
    \/ Tick

SpecCycle == InitCycle /\ [][NextCycle]_vars

\* The scheduling the cycle relies on: the clock advances; a running ticker
\* sends its tick; a goroutine that can take a step takes it; a thread
\* that holds the lock goes on to release it (nothing blocks inside a
\* critical section); and a goroutine waiting in r.Lock() gets the lock if
\* it is free again and again (sync.RWMutex hands the lock to a waiter
\* that has been starved).  Callers are under no obligation to call.
CycleFairness ==
    /\ WF_vars(Tick)
    /\ \A i \in 1..MaxStarts : WF_vars(i <= Len(tickers) /\ TickerFire(i))
    /\ \A g \in Goroutines :
        /\ WF_vars(GoSelect(g))
        /\ WF_vars(GoRecv(g))
        /\ SF_vars(PruneLock(g))
        /\ WF_vars(PruneStep(g))
        /\ WF_vars(PruneUnlock(g))
    /\ \A w \in CycleWorkers :
        /\ WF_vars(RegisterBody(w))
        /\ WF_vars(RegisterUnlock(w))
        /\ WF_vars(UnregisterBody(w))
        /\ WF_vars(UnregisterCheck(w))
        /\ WF_vars(UnregisterUnlock(w))
    /\ WF_vars(StartTicker)
    /\ WF_vars(StartUnlock)
    /\ WF_vars(StopBody)
    /\ WF_vars(StopUnlock)

\* The cycle with a worker that also registers an endpoint under another
\* route, so that the lock is contended by calls that leave "a.b.c" alone.
HealRegisterInputs == { <<UriUpper, E1>>, <<UriWild1, E2>> }

NextHeal ==
    \/ StartDisabled
    \/ StartLock
    \/ StartTicker
    \/ StartUnlock
    \/ StartGo
    \/ StopLock
    \/ StopBody
    \/ StopUnlock
    \/ \E i \in 1..Len(tickers) : TickerFire(i)
    \/ \E g \in Goroutines : GoSelect(g)
    \/ \E g \in Goroutines : GoRecv(g)
    \/ \E g \in Goroutines : PruneLock(g)
    \/ \E g \in Goroutines : PruneStep(g)
    \/ \E g \in Goroutines : PruneUnlock(g)
    \/ \E w \in CycleWorkers : RegisterStart(w)
    \/ \E w \in CycleWorkers : \E in \in HealRegisterInputs : RegisterLock(w, in[1], in[2])
    \/ \E w \in CycleWorkers : RegisterBody(w)
    \/ \E w \in CycleWorkers : RegisterUnlock(w)
    \/ \E w \in CycleWorkers : \E in \in CycleUnregisterInputs : UnregisterLock(w, in[1], in[2])
    \/ \E w \in CycleWorkers : UnregisterBody(w)
    \/ \E w \in CycleWorkers : UnregisterCheck(w)
    \/ \E w \in CycleWorkers : UnregisterUnlock(w)
    \/ Tick

SpecHeal == InitCycle /\ [][NextHeal]_vars /\ CycleFairness

\* The registry of SpecConfig with callers that keep the pool Lookup
\* returns while others register, unregister and sweep.
NextCaller ==
    \/ \E w \in Workers : RegisterStart(w)
    \/ \E w \in Workers : \E in \in RegisterInputs : RegisterLock(w, in[1], in[2])
    \/ \E w \in Workers : RegisterBody(w)
    \/ \E w \in Workers : RegisterUnlock(w)
    \/ \E w \in Workers : \E in \in UnregisterInputs : UnregisterLock(w, in[1], in[2])
    \/ \E w \in Workers : UnregisterBody(w)
    \/ \E w \in Workers : UnregisterCheck(w)
    \/ \E w \in Workers : UnregisterUnlock(w)
    \/ \E w \in Workers : \E uri \in LookupInputs : LookupLock(w, uri)
    \/ \E w \in Workers : LookupLoop(w)
    \/ \E w \in Workers : LookupUnlock(w)
    \/ \E w \in Workers : LookupReturn(w)
    \/ \E w \in Workers : LookupRelease(w)
    \/ PruneLock(Direct)
    \/ PruneStep(Direct)
    \/ PruneUnlock(Direct)
    \/ Tick

SpecCaller == Init /\ [][NextCaller]_vars

\* ================================================================ claims
\* Every Uri the claims range over, and the Uris that differ from u by
\* letter case only.
AllUris ==
    {UriUpper, UriExact, UriWild1, UriWild2, UriNone, UriOtherUpper,
     ToLower(UriOtherUpper)}

CaseVariants(u) == {v \in AllUris : ToLower(v) = ToLower(u)}

AllAddrs == {CanonicalAddr(E1), CanonicalAddr(E2)}

\* A writer has finished the statements under its lock: what it leaves is
\* what the next lock holder sees.
WriterFinished ==
    \/ \E w \in Workers : wk[w].pc \in {"RegUnlock", "UnregUnlock"}
    \/ \E s \in Sweepers : PruneDone(s)

AllPoolsNonEmpty == \A k \in DOMAIN byUri : ~PoolIsEmpty(byUri[k])

\* C1: whenever the table can be observed (no writer holds the lock, a
\* reader holds it, or a writer is about to release it) every key of byUri
\* maps to a pool with at least one endpoint.
C1_NoEmptyRoute ==
    (writer = NoThread \/ readers # {} \/ WriterFinished) => AllPoolsNonEmpty

\* An Unregister has just deleted the route it emptied, other routes
\* remain, and the other worker is inside a concurrent Register.
C1_Witness ==
    \E w \in Workers, v \in Workers :
        /\ wk[w].pc = "UnregUnlock"
        /\ wk[w].uri \in DOMAIN pre /\ wk[w].uri \notin DOMAIN byUri
        /\ DOMAIN byUri # {}
        /\ wk[v].pc = "RegLock"

\* C2: when Register is about to return, the lower-cased uri is a key, its
\* pool (created with threshold / 4 if the key was absent) holds the
\* endpoint's canonical address, and Lookup of the same uri returns it.
C2_RegisterPost ==
    \A w \in Workers : wk[w].pc = "RegUnlock" =>
        LET key == ToLower(wk[w].arg)
            a == CanonicalAddr(wk[w].endpoint)
        IN  /\ key \in DOMAIN byUri
            /\ a \in PoolAddrs(byUri[key])
            /\ key \notin DOMAIN pre =>
                /\ PoolAddrs(byUri[key]) = {a}
                /\ byUri[key].threshold = dropletStaleThreshold \div 4
            /\ LookupResult(byUri, wk[w].arg) = key
            /\ DOMAIN byUri = DOMAIN pre \cup {key}

\* A Register of "A.b.c" has created the pool of "a.b.c".
C2_Witness ==
    \E w \in Workers :
        /\ wk[w].pc = "RegUnlock"
        /\ wk[w].arg = UriUpper
        /\ UriExact \notin DOMAIN pre
        /\ UriExact \in DOMAIN byUri

\* The lower-cased uri followed by its successive NextWildcard forms.
RECURSIVE WildcardChain(_)
WildcardChain(u) ==
    LET nw == NextWildcard(u)
    IN  IF nw.err THEN <<u>> ELSE <<u>> \o WildcardChain(nw.uri)

\* The number of host labels of u that are not the wildcard.
Specificity(u) ==
    LET h == TrimWildcard(HostOf(u))
    IN  IF h = << >> THEN 0
        ELSE 1 + Cardinality({i \in 1..Len(h) : h[i] = 46})

\* The first key of the chain of uri that the table holds, NoUri if none.
FirstMatch(table, uri) ==
    LET chain == WildcardChain(ToLower(uri))
        hits == {i \in 1..Len(chain) : chain[i] \in DOMAIN table}
    IN  IF hits = {} THEN NoUri
        ELSE chain[CHOOSE i \in hits : \A j \in hits : i <= j]

\* C3: when Lookup's loop has ended, the pool it returns is that of the
\* first registered key among the lower-cased uri and its successive
\* wildcard forms, which strictly lose specificity; it is nil exactly when
\* none of them is registered.
C3_LookupOrder ==
    \A w \in Workers : LookupDone(w) =>
        LET chain == WildcardChain(ToLower(wk[w].arg))
        IN  /\ wk[w].pool = FirstMatch(byUri, wk[w].arg)
            /\ wk[w].pool = LookupResult(byUri, wk[w].arg)
            /\ (wk[w].pool = NoUri) <=> (\A i \in 1..Len(chain) : chain[i] \notin DOMAIN byUri)
            /\ wk[w].found <=> wk[w].pool # NoUri
            /\ \A i \in 1..(Len(chain) - 1) :
                    Specificity(chain[i + 1]) < Specificity(chain[i])

\* One Lookup returned the exact route although both wildcard routes are
\* registered, while another, for "X.B.c", returned "*.b.c" rather than
\* "*.c".
C3_Witness ==
    \E w \in Workers, v \in Workers :
        /\ {UriExact, UriWild1, UriWild2} \subseteq DOMAIN byUri
        /\ LookupDone(w) /\ wk[w].arg = UriExact /\ wk[w].pool = UriExact
        /\ LookupDone(v) /\ wk[v].arg = UriOtherUpper /\ wk[v].pool = UriWild1

NoDuplicateAddr ==
    \A k \in DOMAIN byUri : \A x \in byUri[k].endpoints, y \in byUri[k].endpoints :
        CanonicalAddr(x.endpoint) = CanonicalAddr(y.endpoint) => x = y

\* C4: no pool ever holds two elements of one canonical address, and the
\* statements of Register leave exactly one element of the endpoint's
\* address in the pool, carrying the endpoint and the time of this call's
\* Put, the pool's other elements being as before.
C4_IdempotentRegister ==
    /\ []NoDuplicateAddr
    /\ [][\A w \in Workers :
            (wk[w].pc = "RegBody" /\ wk'[w].pc = "RegUnlock") =>
                LET key == ToLower(wk[w].arg)
                    a == CanonicalAddr(wk[w].endpoint)
                    hits == {x \in byUri'[key].endpoints : CanonicalAddr(x.endpoint) = a}
                    before == IF key \in DOMAIN byUri THEN byUri[key].endpoints ELSE {}
                IN  /\ hits = {[endpoint |-> wk[w].endpoint, updated |-> now]}
                    /\ byUri'[key].endpoints \ hits =
                            {x \in before : CanonicalAddr(x.endpoint) # a}]_vars

\* A Register has replaced an element of the same address that was put
\* earlier and with other tags; the pool holds a second endpoint.
C4_Witness ==
    \E w \in Workers :
        /\ wk[w].pc = "RegUnlock"
        /\ wk[w].uri \in DOMAIN pre
        /\ \E x \in pre[wk[w].uri].endpoints, y \in byUri[wk[w].uri].endpoints :
            /\ CanonicalAddr(x.endpoint) = CanonicalAddr(wk[w].endpoint)
            /\ y.endpoint = wk[w].endpoint
            /\ x.endpoint # y.endpoint
            /\ x.updated < y.updated
        /\ Cardinality(byUri[wk[w].uri].endpoints) = 2

\* C5: no two keys differ by letter case only; after Register a Lookup of
\* any case variant of the uri returns a pool holding the endpoint; after
\* Unregister no route that is a case variant of the uri holds it; a
\* Lookup returns what it returns for every case variant of its uri.
C5_CaseInsensitive ==
    /\ \A k \in DOMAIN byUri, l \in DOMAIN byUri : ToLower(k) = ToLower(l) => k = l
    /\ \A w \in Workers : wk[w].pc = "RegUnlock" =>
        \A u \in CaseVariants(wk[w].arg) :
            /\ LookupResult(byUri, u) \in DOMAIN byUri
            /\ CanonicalAddr(wk[w].endpoint) \in PoolAddrs(byUri[LookupResult(byUri, u)])
    /\ \A w \in Workers : wk[w].pc = "UnregUnlock" =>
        \A k \in DOMAIN byUri :
            ToLower(k) = ToLower(wk[w].arg) =>
                CanonicalAddr(wk[w].endpoint) \notin PoolAddrs(byUri[k])
    /\ \A w \in Workers : LookupDone(w) =>
        \A u \in CaseVariants(wk[w].arg) : wk[w].pool = LookupResult(byUri, u)

\* A Lookup of "a.b.c" has returned the pool holding the endpoint that
\* was registered as "A.b.c" (E1 is registered under no other spelling).
C5_Witness ==
    \E w \in Workers :
        /\ LookupDone(w) /\ wk[w].arg = UriExact /\ wk[w].pool = UriExact
        /\ \E x \in byUri[UriExact].endpoints : x.endpoint = E1

\* C6: an Unregister of the only endpoint of a route deletes the route and
\* NumUris drops by one, a Lookup of it no longer returning that route;
\* and from any table without the route, Register followed by Unregister of
\* the same endpoint gives the table back, NumUris included.
C6_RoundTrip ==
    /\ \A w \in Workers : wk[w].pc = "UnregUnlock" =>
        LET key == ToLower(wk[w].arg)
        IN  (key \in DOMAIN pre
                /\ PoolAddrs(pre[key]) = {CanonicalAddr(wk[w].endpoint)}) =>
            /\ key \notin DOMAIN byUri
            /\ NumUrisOf(byUri) = NumUrisOf(pre) - 1
            /\ LookupResult(byUri, wk[w].arg) # key
            /\ (\A i \in 2..Len(WildcardChain(key)) :
                    WildcardChain(key)[i] \notin DOMAIN byUri)
                => LookupResult(byUri, wk[w].arg) = NoUri
    /\ writer = NoThread =>
        \A in \in RegisterInputs :
            ToLower(in[1]) \notin DOMAIN byUri =>
                LET registered == RegisterTable(byUri, in[1], in[2],
                                                dropletStaleThreshold, now)
                    back == UnregisterTable(registered, in[1], in[2])
                IN  /\ NumUrisOf(registered) = NumUrisOf(byUri) + 1
                    /\ back = byUri
                    /\ NumUrisOf(back) = NumUrisOf(byUri)

\* An Unregister has removed the only endpoint of "*.b.c", no wildcard
\* route covers it, and Lookup now finds nothing.
C6_Witness ==
    \E w \in Workers :
        /\ wk[w].pc = "UnregUnlock"
        /\ wk[w].arg = UriWild1
        /\ UriWild1 \in DOMAIN pre
        /\ PoolAddrs(pre[UriWild1]) = {CanonicalAddr(wk[w].endpoint)}
        /\ UriWild2 \notin DOMAIN byUri
        /\ NumUrisOf(pre) = 2
        /\ NumUrisOf(byUri) = 1
        /\ LookupResult(byUri, UriWild1) = NoUri

\* C7: an Unregister of a route that is not in the table, or of an address
\* that is not in the route's pool, leaves the table as it was.
C7_UnregisterNoOp ==
    \A w \in Workers : wk[w].pc = "UnregUnlock" =>
        LET key == ToLower(wk[w].arg)
        IN  (key \notin DOMAIN pre
                \/ CanonicalAddr(wk[w].endpoint) \notin PoolAddrs(pre[key]))
            => byUri = pre /\ ~wk[w].err

\* An Unregister of an address the route's pool does not hold has ended,
\* the route still there.
C7_Witness ==
    \E w \in Workers :
        /\ wk[w].pc = "UnregUnlock"
        /\ wk[w].found
        /\ CanonicalAddr(wk[w].endpoint) \notin PoolAddrs(pre[wk[w].uri])
        /\ wk[w].uri \in DOMAIN byUri

\* An element is stale at time t: last put before t - threshold.
Stale(x, t) == x.updated < t - dropletStaleThreshold

\* C8: when a sweep has visited every route, no pool holds an element that
\* was stale at the time the sweep began (each pool reads the clock no
\* earlier), every route is still non-empty, and a route whose elements
\* were all stale at that time is gone.
C8_SweepEvicts ==
    \A s \in Sweepers : PruneDone(s) =>
        /\ \A k \in DOMAIN byUri : \A x \in byUri[k].endpoints : ~Stale(x, sw[s].t0)
        /\ AllPoolsNonEmpty
        /\ \A k \in DOMAIN pre :
            (\A x \in pre[k].endpoints : Stale(x, sw[s].t0)) => k \notin DOMAIN byUri

\* A sweep has deleted a route whose endpoints were all stale and has
\* removed a stale endpoint from a route it kept.
C8_Witness ==
    \E s \in Sweepers :
        /\ PruneDone(s)
        /\ \E k \in DOMAIN pre : k \notin DOMAIN byUri
        /\ \E k \in DOMAIN byUri : byUri[k].endpoints # pre[k].endpoints

\* The canonical addresses found in some pool of the table.
DistinctAddrs(table) ==
    {a \in AllAddrs : \E k \in DOMAIN table : \E x \in table[k].endpoints :
        CanonicalAddr(x.endpoint) = a}

\* C9: NumEndpoints returns the number of distinct canonical addresses over
\* all pools and NumUris the number of keys: one address under two routes
\* counts once.
C9_Counts ==
    /\ \A w \in Workers : wk[w].pc = "NumEndpointsUnlock" =>
        /\ wk[w].ret = Cardinality(DistinctAddrs(byUri))
        /\ (Cardinality(DOMAIN byUri) = 2
                /\ \A k \in DOMAIN byUri : PoolAddrs(byUri[k]) = {CanonicalAddr(E1)})
            => wk[w].ret = 1
    /\ \A w \in Workers : wk[w].pc = "NumUrisUnlock" =>
        /\ wk[w].ret = Cardinality({k \in AllUris : k \in DOMAIN byUri})
        /\ DOMAIN byUri \subseteq AllUris

\* One address is registered under two routes: NumEndpoints has returned 1
\* and NumUris 2.
C9_Witness ==
    \E w \in Workers, v \in Workers :
        /\ DOMAIN byUri = {UriExact, UriWild2}
        /\ \A k \in DOMAIN byUri : PoolAddrs(byUri[k]) = {CanonicalAddr(E1)}
        /\ wk[w].pc = "NumEndpointsUnlock" /\ wk[w].ret = 1
        /\ wk[v].pc = "NumUrisUnlock" /\ wk[v].ret = 2

\* C10: at any time at most one ticker is running and at most one
\* goroutine runs the sweep loop.  StartPruningCycle called twice makes two
\* of each.
C10_SingleCycle ==
    /\ Cardinality({i \in 1..Len(tickers) : ~tickers[i].stopped}) <= 1
    /\ Cardinality({g \in Goroutines : sw[g].pc # "none"}) <= 1

\* StopPruningCycle has returned and StartPruningCycle has not been called
\* since: the ticker r.ticker names is stopped and the owner of the cycle
\* is outside any method.
StopReturned ==
    /\ ctl.pc = "idle"
    /\ ticker # 0
    /\ tickers[ticker].stopped

\* C11: once StopPruningCycle has returned no goroutine is inside
\* pruneStaleDroplets.  A goroutine that took its tick before the stop, or
\* that waits on a ticker an earlier StartPruningCycle left running, still
\* sweeps afterwards.
C11_StopIsSynchronous ==
    StopReturned => \A g \in Goroutines : sw[g].pc # "PruneLoop"

\* A step of StopPruningCycle: the owner of the cycle enters, or moves
\* inside, or leaves the method.
StopStep ==
    /\ ctl' # ctl
    /\ \/ ctl'.pc \in {"StopBody", "StopUnlock"}
       \/ ctl.pc = "StopUnlock"

\* C12: on a registry whose cycle was never started (r.ticker is nil)
\* StopPruningCycle runs to its return (each of its statements under the
\* lock can be taken) and none of its steps changes the table, the ticker
\* handle, the tickers or the time of the last update.
C12_StopNeverStarted ==
    /\ [](ctl.pc = "StopBody" => ENABLED StopBody)
    /\ [](ctl.pc = "StopUnlock" => ENABLED StopUnlock)
    /\ [][(ticker = 0 /\ StopStep) =>
            UNCHANGED <<byUri, timeOfLastUpdate, ticker, tickers>>]_vars

\* StopPruningCycle has returned on a registry that was never started and
\* holds a route; its ticker is still nil.
C12_Witness ==
    /\ ticker = 0
    /\ tickers = << >>
    /\ ctl.pc = "StopUnlock"
    /\ ctl.starts = 0
    /\ byUri # EmptyTable

\* The (route, canonical address) pairs the table holds.
Members(table) ==
    UNION {{<<k, CanonicalAddr(x.endpoint)>> : x \in table[k].endpoints} :
           k \in DOMAIN table}

CycleDisabled == pruneStaleDropletsInterval <= 0

\* C13: with an interval that is zero or negative no ticker is ever
\* created, no goroutine is ever started and no sweep holds the lock,
\* whatever is called; and a step that takes an address out of a route is
\* a step of Unregister.
C13_DisabledCycle ==
    /\ [](CycleDisabled =>
            /\ ticker = 0
            /\ tickers = << >>
            /\ \A g \in Goroutines : sw[g].pc = "none"
            /\ writer \notin Sweepers)
    /\ [][(CycleDisabled /\ ~(Members(byUri) \subseteq Members(byUri'))) =>
            \E w \in CycleWorkers :
                /\ writer = w
                /\ wk[w].pc \in {"UnregBody", "UnregCheck"}]_vars

\* StartPruningCycle has been called MaxStarts times with an interval that
\* is not positive, and the table still holds an endpoint put before the
\* clock last advanced, which a sweep would have evicted.
C13_Witness ==
    /\ CycleDisabled
    /\ ctl.starts = MaxStarts
    /\ \E k \in DOMAIN byUri : \E x \in byUri[k].endpoints :
            x.updated < now - dropletStaleThreshold

\* C14: r.timeOfLastUpdate never moves backwards.  Register reads the
\* clock before it takes the lock, so a Register that was called first and
\* got the lock last stores the earlier time over the later one.
C14_MonotoneUpdate == [][timeOfLastUpdate' >= timeOfLastUpdate]_vars

\* The addresses a caller sees in the pool Lookup returned to it: those of
\* the pool in the map while it is still stored there; a pool is deleted
\* from the map only once it is empty.
HeldView(w) ==
    IF wk[w].found THEN PoolAddrs(byUri[wk[w].pool]) ELSE {}

\* C15: the addresses seen through a pool that Lookup returned do not
\* change while the caller holds it.  The pool returned is the one stored
\* in the map, so a later Register, Unregister or sweep of that route
\* changes it under the caller's eyes.
C15_LookupSnapshot ==
    [][\A w \in Workers :
        (wk[w].pc = "LookupHeld" /\ wk'[w].pc = "LookupHeld") =>
            HeldView(w)' = HeldView(w)]_vars

\* What each reader has read is what the table, as it stands, gives.
ReadersSeeTable ==
    \A w \in Workers :
        /\ wk[w].pc = "MarshalJSONUnlock" => wk[w].dump = MarshalJSONOf(byUri)
        /\ wk[w].pc = "NumUrisUnlock" => wk[w].ret = NumUrisOf(byUri)
        /\ wk[w].pc = "NumEndpointsUnlock" => wk[w].ret = NumEndpointsOf(byUri)
        /\ LookupDone(w) => wk[w].pool = LookupResult(byUri, wk[w].arg)

\* C16: while a sweep is between its Lock and its Unlock no reader holds
\* the lock; while a reader holds it no sweep is under way, no pool is
\* empty, what the reader has read is what the whole table gives, and the
\* table does not change.
C16_SweepAtomic ==
    /\ [](\A s \in Sweepers : sw[s].pc = "PruneLoop" =>
                readers = {} /\ writer = s)
    /\ [](readers # {} =>
            /\ \A s \in Sweepers : sw[s].pc # "PruneLoop"
            /\ pre = EmptyTable
            /\ AllPoolsNonEmpty
            /\ ReadersSeeTable)
    /\ [][readers # {} => byUri' = byUri]_vars

\* A sweep is half done: it has deleted one route and has another still to
\* visit, while both workers are outside the lock.
C16_Witness ==
    /\ sw[Direct].pc = "PruneLoop"
    /\ sw[Direct].rem # {}
    /\ DOMAIN byUri # DOMAIN pre
    /\ readers = {}
    /\ \A w \in Workers : wk[w].pc \in {"idle", "RegLock"}

\* Where a worker is between Lock and Unlock, and between RLock and
\* RUnlock.
WriterPcs ==
    {"RegBody", "RegUnlock", "UnregBody", "UnregCheck", "UnregUnlock",
     "PauseBody", "PauseUnlock"}

ReaderPcs ==
    {"LookupLoop", "NumUrisUnlock", "NumEndpointsUnlock",
     "TimeOfLastUpdateUnlock", "MarshalJSONUnlock"}

\* C18: a thread is inside a mutator's critical section exactly when it is
\* the one holder of the write lock, and inside a reader's exactly when it
\* holds the read lock; the write lock is never held together with a read
\* lock; and a step that changes the map or the time of the last update is
\* a step of the thread that holds the write lock.
C18_LockDiscipline ==
    /\ [](writer # NoThread => readers = {})
    /\ [](\A w \in Workers :
            /\ wk[w].pc \in WriterPcs <=> writer = w
            /\ wk[w].pc \in ReaderPcs <=> w \in readers)
    /\ [](\A s \in Sweepers : sw[s].pc = "PruneLoop" <=> writer = s)
    /\ [][(byUri' # byUri \/ timeOfLastUpdate' # timeOfLastUpdate) =>
            /\ writer # NoThread
            /\ writer' = writer
            /\ readers = {}]_vars

\* Two readers overlap, one in Lookup and one in MarshalJSON, on a table
\* that holds routes.
C18_Witness ==
    \E w \in Workers, v \in Workers :
        /\ readers = {w, v}
        /\ wk[w].pc = "LookupLoop"
        /\ wk[v].pc = "MarshalJSONUnlock"
        /\ byUri # EmptyTable

\* C19: Lookup's loop takes at most as many turns as the uri has host
\* labels, each turn either ending the loop with the error of NextWildcard
\* or leaving a uri with one label fewer; once a pool is found or the
\* error is raised no further turn is taken and Lookup can return; and
\* what it returns is a pool of the table or nil, nil when the wildcard
\* forms are exhausted.
C19_LookupTerminates ==
    /\ [](\A w \in Workers : wk[w].pc = "LookupLoop" =>
            wk[w].ret <= Specificity(ToLower(wk[w].arg)))
    /\ [](\A w \in Workers : LookupDone(w) =>
            /\ ENABLED LookupUnlock(w)
            /\ ~ENABLED LookupLoop(w)
            /\ wk[w].pool \in DOMAIN byUri \cup {NoUri}
            /\ wk[w].found <=> wk[w].pool # NoUri
            /\ (wk[w].err /\ ~wk[w].found) => wk[w].pool = NoUri)
    /\ [][\A w \in Workers :
            (wk[w].pc = "LookupLoop" /\ wk'[w].pc = "LookupLoop"
                /\ wk'[w] # wk[w]) =>
                /\ wk'[w].ret = wk[w].ret + 1
                /\ \/ wk'[w].err
                   \/ Specificity(wk'[w].uri) < Specificity(wk[w].uri)]_vars

\* A Lookup of "X.B.c" has tried "*.b.c" and "*.c", has had the error
\* from NextWildcard on its third turn and returns nil, while another of
\* the fully wildcarded "*.c" has ended on its first turn; the table holds
\* a route that neither matches.
C19_Witness ==
    \E w \in Workers, v \in Workers :
        /\ LookupDone(w) /\ wk[w].arg = UriOtherUpper
        /\ wk[w].err /\ wk[w].ret = 3 /\ wk[w].pool = NoUri
        /\ LookupDone(v) /\ wk[v].arg = UriWild2
        /\ wk[v].err /\ wk[v].ret = 1 /\ wk[v].pool = NoUri
        /\ UriExact \in DOMAIN byUri

\* C20: from its Lock to its Unlock a sweep adds no route and no element
\* to a route, and every element that is not stale even by the present
\* clock (it was put within the threshold) is still in its pool, its route
\* still in the table.
C20_SweepKeepsFresh ==
    \A s \in Sweepers : sw[s].pc = "PruneLoop" =>
        /\ DOMAIN byUri \subseteq DOMAIN pre
        /\ \A k \in DOMAIN byUri : byUri[k].endpoints \subseteq pre[k].endpoints
        /\ \A k \in DOMAIN pre : \A x \in pre[k].endpoints :
                ~Stale(x, now) =>
                    /\ k \in DOMAIN byUri
                    /\ x \in byUri[k].endpoints

\* A sweep has ended that took a stale endpoint out of a route and left
\* the fresh one there, and deleted another route.
C20_Witness ==
    \E s \in Sweepers :
        /\ PruneDone(s)
        /\ \E k \in DOMAIN byUri : \E x \in pre[k].endpoints, y \in byUri[k].endpoints :
                /\ x \notin byUri[k].endpoints
                /\ Stale(x, sw[s].t0)
                /\ ~Stale(y, now)
        /\ DOMAIN byUri # DOMAIN pre

\* No ticker has been stopped; the cycle runs: a goroutine has been
\* started and no ticker has been stopped.
Unstopped == \A i \in 1..Len(tickers) : ~tickers[i].stopped

CycleRunning ==
    /\ \E g \in Goroutines : sw[g].pc # "none"
    /\ Unstopped

\* The route "a.b.c" holds the endpoint as it was put at time t.
HoldsSince(t) ==
    /\ UriExact \in DOMAIN byUri
    /\ [endpoint |-> E1, updated |-> t] \in byUri[UriExact].endpoints

EmptyRoute == \E k \in DOMAIN byUri : PoolIsEmpty(byUri[k])

\* C17: while the cycle runs, an endpoint put at a time the clock then
\* passes is eventually out of its pool as it was put (evicted, or removed,
\* or put again), unless a ticker is stopped; and a route with an empty
\* pool is eventually out of the table.
C17_EventuallyEvicted ==
    /\ \A t \in 0..(MaxTime - 1) :
            (CycleRunning /\ HoldsSince(t)) ~> (~HoldsSince(t) \/ ~Unstopped)
    /\ EmptyRoute ~> ~EmptyRoute

\* A goroutine of the running cycle has swept "a.b.c" out of the table
\* and has kept "*.b.c", whose endpoint the worker put later.
C17_Witness ==
    \E g \in Goroutines :
        /\ PruneDone(g)
        /\ Unstopped
        /\ UriExact \in DOMAIN pre
        /\ DOMAIN byUri = {UriWild1}
====
